---- MODULE Spec2Model ----
(***************************************************************************)
(* Model of the resume guardrail service: the PII detector, risk scorer    *)
(* and redactor of app/guardrails.py, the Gemini wrapper of                *)
(* app/gemini_client.py and the index-build and query handlers of          *)
(* app/main.py.                                                            *)
(*                                                                         *)
(* Text is a sequence of one-character strings.  Similarities and          *)
(* recognizer confidences are in hundredths (0.75 is 75), risk scores in   *)
(* thousandths (0.8 is 800).  A call that can raise returns                *)
(* [raised, value]; the external recognizer, the embedding model, the      *)
(* vector search and the generative model are inputs chosen with \E.       *)
(***************************************************************************)
EXTENDS Integers, Sequences, FiniteSets, TLC

VARIABLES
  \* apply_guardrails called on its own (the harness of the detector)
  text,            \* the input string
  env,             \* what the recognizer and the encoder do on text
  analysis,        \* the report of analyze_text, as apply_guardrails left it
  sanitized,       \* apply_guardrails(text)
  env2,            \* what the recognizer and the encoder do on sanitized
  resanitized,     \* apply_guardrails(sanitized)
  hpc,             \* position of the harness
  \* the service
  detector,        \* what the recognizer and the encoder of this process find
  \* the files of the service
  resumeFolder,    \* RESUME_FOLDER: [exists, pdfs]
  indexFile,       \* FAISS_INDEX_FILE: [state, gen, ntotal]
  textFile,        \* TEXT_STORE_FILE: [state, gen, texts]
  \* /build_index
  bpc,             \* position of build_faiss_index
  pdf_files,       \* its listing of the folder
  btexts,          \* its texts
  builds,          \* the number of builds started: the generation a build writes
  bprev,           \* the two files as they were when the build started
  bresp,           \* the last response of /build_index
  \* /query
  qpc,             \* position of query_resume
  query,
  index,           \* the index search_resumes read
  texts,           \* the text store search_resumes read
  matched_text,
  redacted_text,
  context_analysis,
  response_text,
  final_analysis,
  qresp,           \* the last response of /query
  \* GeminiClient.generate_response
  client           \* its last call: what it received and what it returned

hvars == <<text, env, analysis, sanitized, env2, resanitized, hpc>>

fvars == <<resumeFolder, indexFile, textFile>>

bvars == <<bpc, pdf_files, btexts, builds, bprev, bresp>>

qvars == <<qpc, query, index, texts, matched_text, redacted_text,
           context_analysis, response_text, final_analysis, qresp>>

vars == <<hvars, detector, fvars, bvars, qvars, client>>

(***************************************************************************)
(* Strings                                                                 *)
(***************************************************************************)
Min(a, b) == IF a < b THEN a ELSE b

\* s[:n] for n >= 0
Take(s, n) == SubSeq(s, 1, Min(n, Len(s)))

\* s[n:] for n >= 0
Drop(s, n) == SubSeq(s, Min(n, Len(s)) + 1, Len(s))

LowerChars ==
  <<"a", "b", "c", "d", "e", "f", "g", "h", "i", "j", "k", "l", "m",
    "n", "o", "p", "q", "r", "s", "t", "u", "v", "w", "x", "y", "z">>

UpperChars ==
  <<"A", "B", "C", "D", "E", "F", "G", "H", "I", "J", "K", "L", "M",
    "N", "O", "P", "Q", "R", "S", "T", "U", "V", "W", "X", "Y", "Z">>

LowerSet == {LowerChars[i] : i \in 1..26}

UpperSet == {UpperChars[i] : i \in 1..26}

ToUpper == [c \in LowerSet |-> UpperChars[CHOOSE i \in 1..26 : LowerChars[i] = c]]

ToLower == [c \in UpperSet |-> LowerChars[CHOOSE i \in 1..26 : UpperChars[i] = c]]

UpperChar(c) == IF c \in LowerSet THEN ToUpper[c] ELSE c

LowerChar(c) == IF c \in UpperSet THEN ToLower[c] ELSE c

\* str.upper()
upper(s) == [i \in 1..Len(s) |-> UpperChar(s[i])]

\* str.lower()
lower(s) == [i \in 1..Len(s) |-> LowerChar(s[i])]

\* sub in s
Contains(sub, s) ==
  \E i \in 0..(Len(s) - Len(sub)) : SubSeq(s, i + 1, i + Len(sub)) = sub

\* s.replace(old, new), old not empty: left to right, non-overlapping
RECURSIVE replace(_, _, _)
replace(s, old, new) ==
  IF Len(s) < Len(old) THEN s
  ELSE IF SubSeq(s, 1, Len(old)) = old
       THEN new \o replace(SubSeq(s, Len(old) + 1, Len(s)), old, new)
       ELSE <<Head(s)>> \o replace(Tail(s), old, new)

Ok(v) == [raised |-> FALSE, value |-> v]
Raise == [raised |-> TRUE, value |-> <<>>]

(***************************************************************************)
(* PII_DETECTION_CONFIG                                                    *)
(***************************************************************************)
semantic_similarity == 75

presidio_confidence == 70

entities ==
  {"CREDIT_CARD", "EMAIL_ADDRESS", "PHONE_NUMBER", "US_SSN",
   "BANK_ACCOUNT", "IBAN_CODE", "IFSC_CODE", "PAN_NUMBER",
   "AADHAAR_NUMBER", "LOCATION", "URL"}

sensitive_topics ==
  << <<"b", "a", "n", "k", " ", "a", "c", "c", "o", "u", "n", "t">>,
     <<"c", "r", "e", "d", "i", "t", " ", "c", "a", "r", "d">>,
     <<"d", "e", "b", "i", "t", " ", "c", "a", "r", "d">>,
     <<"i", "f", "s", "c", " ", "c", "o", "d", "e">>,
     <<"c", "v", "v">>,
     <<"s", "o", "c", "i", "a", "l", " ", "s", "e", "c", "u", "r", "i", "t", "y", " ", "n", "u", "m", "b", "e", "r">>,
     <<"s", "s", "n">>,
     <<"p", "a", "n", " ", "c", "a", "r", "d">>,
     <<"a", "a", "d", "h", "a", "a", "r">>,
     <<"p", "a", "s", "s", "p", "o", "r", "t">>,
     <<"r", "o", "u", "t", "i", "n", "g", " ", "n", "u", "m", "b", "e", "r">>,
     <<"a", "c", "c", "o", "u", "n", "t", " ", "n", "u", "m", "b", "e", "r">>,
     <<"p", "i", "n">>,
     <<"p", "a", "s", "s", "w", "o", "r", "d">>,
     <<"o", "t", "p">>,
     <<"s", "a", "l", "a", "r", "y">>,
     <<"c", "o", "m", "p", "e", "n", "s", "a", "t", "i", "o", "n">>,
     <<"c", "t", "c">>,
     <<"p", "a", "c", "k", "a", "g", "e">>,
     <<"b", "a", "n", "k", "i", "n", "g", " ", "d", "e", "t", "a", "i", "l", "s">>,
     <<"n", "e", "t", " ", "b", "a", "n", "k", "i", "n", "g">>,
     <<"u", "p", "i", " ", "i", "d">>,
     <<"p", "a", "y", "t", "m">>,
     <<"g", "o", "o", "g", "l", "e", " ", "p", "a", "y">>,
     <<"p", "h", "o", "n", "e", "p", "e">>,
     <<"l", "i", "n", "k", "e", "d", "i", "n">>,
     <<"g", "i", "t", "h", "u", "b">>,
     <<"c", "g", "p", "a">>,
     <<"m", "a", "r", "k", "s">>,
     <<"g", "p", "a">>,
     <<"g", "r", "a", "d", "e">>,
     <<"p", "e", "r", "c", "e", "n", "t", "a", "g", "e">> >>

high_risk_entities ==
  {"CREDIT_CARD", "US_SSN", "BANK_ACCOUNT", "AADHAAR_NUMBER",
   "PAN_NUMBER", "IFSC_CODE", "EMAIL_ADDRESS", "PHONE_NUMBER", "URL"}

redaction_patterns ==
  [ EMAIL_ADDRESS |-> <<"[", "E", "M", "A", "I", "L", "_", "R", "E", "D", "A", "C", "T", "E", "D", "]">>,
    PHONE_NUMBER |-> <<"[", "P", "H", "O", "N", "E", "_", "R", "E", "D", "A", "C", "T", "E", "D", "]">>,
    US_SSN |-> <<"[", "S", "S", "N", "_", "R", "E", "D", "A", "C", "T", "E", "D", "]">>,
    CREDIT_CARD |-> <<"[", "C", "A", "R", "D", "_", "R", "E", "D", "A", "C", "T", "E", "D", "]">>,
    BANK_ACCOUNT |-> <<"[", "A", "C", "C", "O", "U", "N", "T", "_", "R", "E", "D", "A", "C", "T", "E", "D", "]">>,
    IFSC_CODE |-> <<"[", "I", "F", "S", "C", "_", "R", "E", "D", "A", "C", "T", "E", "D", "]">>,
    PAN_NUMBER |-> <<"[", "P", "A", "N", "_", "R", "E", "D", "A", "C", "T", "E", "D", "]">>,
    AADHAAR_NUMBER |-> <<"[", "A", "A", "D", "H", "A", "A", "R", "_", "R", "E", "D", "A", "C", "T", "E", "D", "]">>,
    URL |-> <<"[", "L", "I", "N", "K", "_", "R", "E", "D", "A", "C", "T", "E", "D", "]">>,
    CGPA |-> <<"[", "C", "G", "P", "A", "_", "R", "E", "D", "A", "C", "T", "E", "D", "]">>,
    MARKS |-> <<"[", "M", "A", "R", "K", "S", "_", "R", "E", "D", "A", "C", "T", "E", "D", "]">>,
    GPA |-> <<"[", "G", "P", "A", "_", "R", "E", "D", "A", "C", "T", "E", "D", "]">>,
    PERCENTAGE |-> <<"[", "P", "E", "R", "C", "E", "N", "T", "A", "G", "E", "_", "R", "E", "D", "A", "C", "T", "E", "D", "]">> ]

\* the name of an entity type, as the characters of the fallback token
EntityTypeChars(t) ==
  CASE t = "CREDIT_CARD" -> <<"C", "R", "E", "D", "I", "T", "_", "C", "A", "R", "D">>
    [] t = "EMAIL_ADDRESS" -> <<"E", "M", "A", "I", "L", "_", "A", "D", "D", "R", "E", "S", "S">>
    [] t = "PHONE_NUMBER" -> <<"P", "H", "O", "N", "E", "_", "N", "U", "M", "B", "E", "R">>
    [] t = "US_SSN" -> <<"U", "S", "_", "S", "S", "N">>
    [] t = "BANK_ACCOUNT" -> <<"B", "A", "N", "K", "_", "A", "C", "C", "O", "U", "N", "T">>
    [] t = "IBAN_CODE" -> <<"I", "B", "A", "N", "_", "C", "O", "D", "E">>
    [] t = "IFSC_CODE" -> <<"I", "F", "S", "C", "_", "C", "O", "D", "E">>
    [] t = "PAN_NUMBER" -> <<"P", "A", "N", "_", "N", "U", "M", "B", "E", "R">>
    [] t = "AADHAAR_NUMBER" -> <<"A", "A", "D", "H", "A", "A", "R", "_", "N", "U", "M", "B", "E", "R">>
    [] t = "LOCATION" -> <<"L", "O", "C", "A", "T", "I", "O", "N">>
    [] t = "URL" -> <<"U", "R", "L">>

(***************************************************************************)
(* AdvancedPIIDetector                                                     *)
(***************************************************************************)
\* text[start:end]
Slice(t, start, end) == Drop(Take(t, end), start)

\* detect_pii_with_presidio: analyzer is the recognizer on this call
\* (available: _setup_presidio returned an engine; raises: analyze() throws;
\* results: what analyze() returns)
detect_pii_with_presidio(analyzer, t) ==
  IF ~analyzer.available THEN Ok(<<>>)
  ELSE IF analyzer.raises THEN Ok(<<>>)
  ELSE Ok([i \in 1..Len(analyzer.results) |->
            LET r == analyzer.results[i] IN
            [entity_type |-> r.entity_type, start |-> r.start, end |-> r.end,
             score |-> r.score, text |-> Slice(t, r.start, r.end)]])

\* util.cos_sim of the text against every topic, as the encoder gives it
cos_sim(encoder) ==
  [i \in 1..Len(sensitive_topics) |->
     IF i \in encoder.peaks THEN encoder.sim ELSE encoder.base]

\* sims.max()
SeqMax(s) == CHOOSE m \in {s[i] : i \in 1..Len(s)} : \A i \in 1..Len(s) : s[i] <= m

\* sims.argmax(): the first index of the maximum
ArgMax(s) == CHOOSE i \in 1..Len(s) : s[i] = SeqMax(s) /\ \A j \in 1..(i - 1) : s[j] < s[i]

\* detect_semantic_pii without its try/except
detect_semantic_pii_unguarded(encoder, t) ==
  IF encoder.raises THEN Raise
  ELSE LET sims == cos_sim(encoder)
           max_sim == SeqMax(sims)
       IN IF max_sim > semantic_similarity
          THEN Ok([detected |-> TRUE, similarity |-> max_sim,
                   matched_topic |-> sensitive_topics[ArgMax(sims)]])
          ELSE Ok([detected |-> FALSE, similarity |-> max_sim])

\* detect_semantic_pii: encoder is the embedding model on this call
detect_semantic_pii(encoder, t) ==
  IF encoder.raises THEN Ok([detected |-> FALSE, similarity |-> 0])
  ELSE LET sims == cos_sim(encoder)
           max_sim == SeqMax(sims)
       IN IF max_sim > semantic_similarity
          THEN Ok([detected |-> TRUE, similarity |-> max_sim,
                   matched_topic |-> sensitive_topics[ArgMax(sims)]])
          ELSE Ok([detected |-> FALSE, similarity |-> max_sim])

RiskPerDetection == 300

RiskSemanticWeight == 5

RiskHighRisk == 400

RiskMax == 1000

\* _calculate_risk without the 0.4 of the high-risk entities
calculate_risk_flat(detections, semantic) ==
  LET base == Len(detections) * RiskPerDetection
      sem == IF semantic.detected THEN semantic.similarity * RiskSemanticWeight ELSE 0
  IN Min(base + sem, RiskMax)

\* _calculate_risk without the min(score, 1.0)
calculate_risk_unclamped(detections, semantic) ==
  LET base == Len(detections) * RiskPerDetection
      sem == IF semantic.detected THEN semantic.similarity * RiskSemanticWeight ELSE 0
      high == Cardinality({i \in 1..Len(detections) :
                             detections[i].entity_type \in high_risk_entities})
  IN base + sem + high * RiskHighRisk

\* _calculate_risk, in thousandths
calculate_risk(detections, semantic) ==
  LET base == Len(detections) * RiskPerDetection
      sem == IF semantic.detected THEN semantic.similarity * RiskSemanticWeight ELSE 0
      high == Cardinality({i \in 1..Len(detections) :
                             detections[i].entity_type \in high_risk_entities})
  IN Min(base + sem + high * RiskHighRisk, RiskMax)

\* analyze_text
analyze_text(e, t) ==
  LET presidio == detect_pii_with_presidio(e.analyzer, t)
      semantic == detect_semantic_pii(e.encoder, t)
  IN IF presidio.raised \/ semantic.raised THEN Raise
     ELSE Ok([contains_pii |-> (presidio.value # <<>>) \/ semantic.value.detected,
              presidio_detections |-> presidio.value,
              semantic_detection |-> semantic.value,
              all_detections |-> presidio.value,
              risk_score |-> calculate_risk(presidio.value, semantic.value)])

\* list.sort(key=start, reverse=True): stable, descending
RECURSIVE InsertDesc(_, _)
InsertDesc(d, s) ==
  IF s = <<>> THEN <<d>>
  ELSE IF Head(s).start >= d.start THEN <<Head(s)>> \o InsertDesc(d, Tail(s))
       ELSE <<d>> \o s

RECURSIVE SortDesc(_)
SortDesc(s) ==
  IF s = <<>> THEN <<>>
  ELSE InsertDesc(s[Len(s)], SortDesc(SubSeq(s, 1, Len(s) - 1)))

\* redaction_patterns.get(entity_type, "[<entity_type>_REDACTED]")
Replacement(entity_type) ==
  IF entity_type \in DOMAIN redaction_patterns
  THEN redaction_patterns[entity_type]
  ELSE <<"[">> \o EntityTypeChars(entity_type)
       \o <<"_", "R", "E", "D", "A", "C", "T", "E", "D", "]">>

\* the loop of redact_pii over the sorted detections
RECURSIVE ReplaceSpans(_, _)
ReplaceSpans(redacted, detections) ==
  IF detections = <<>> THEN redacted
  ELSE LET d == Head(detections)
       IN ReplaceSpans(Take(redacted, d.start) \o Replacement(d.entity_type)
                         \o Drop(redacted, d.end),
                       Tail(detections))

\* the keyword pass of redact_pii
ReplaceTopic(redacted, semantic) ==
  IF ~semantic.detected THEN redacted
  ELSE LET topic == upper(semantic.matched_topic) IN
       IF Contains(<<"C", "G", "P", "A">>, topic)
       THEN replace(redacted, <<"C", "G", "P", "A">>, redaction_patterns.CGPA)
       ELSE IF Contains(<<"M", "A", "R", "K", "S">>, topic)
       THEN replace(redacted, <<"m", "a", "r", "k", "s">>, redaction_patterns.MARKS)
       ELSE IF Contains(<<"G", "P", "A">>, topic)
       THEN replace(redacted, <<"G", "P", "A">>, redaction_patterns.GPA)
       ELSE IF Contains(<<"P", "E", "R", "C", "E", "N", "T", "A", "G", "E">>, topic)
       THEN replace(redacted, <<"%">>, redaction_patterns.PERCENTAGE)
       ELSE redacted

\* redact_pii: the string it returns
redact_pii(t, a) ==
  ReplaceTopic(ReplaceSpans(t, SortDesc(a.presidio_detections)), a.semantic_detection)

\* redact_pii: the report it leaves (presidio_detections and all_detections are one list)
redact_pii_report(a) ==
  [a EXCEPT !.presidio_detections = SortDesc(a.presidio_detections),
            !.all_detections = SortDesc(a.presidio_detections)]

\* apply_guardrails returning an empty placeholder when nothing is detected
apply_guardrails_placeholder(e, t) ==
  LET a == analyze_text(e, t)
  IN IF a.raised THEN Raise
     ELSE IF a.value.contains_pii THEN Ok(redact_pii(t, a.value))
     ELSE Ok(<<>>)

\* apply_guardrails
apply_guardrails(e, t) ==
  LET a == analyze_text(e, t)
  IN IF a.raised THEN Raise
     ELSE IF a.value.contains_pii THEN Ok(redact_pii(t, a.value))
     ELSE Ok(t)

\* the report as apply_guardrails leaves it
apply_guardrails_report(e, t) ==
  LET a == analyze_text(e, t)
  IN IF a.raised THEN Raise
     ELSE IF a.value.contains_pii THEN Ok(redact_pii_report(a.value))
     ELSE a

\* AdvancedGuardrails.analyze_content
analyze_content(e, t) ==
  LET a == analyze_text(e, t)
  IN IF a.raised THEN Raise
     ELSE Ok([safe |-> TRUE,
              metadata |->
                [presidio_detections |-> a.value.presidio_detections,
                 semantic_detection |-> a.value.semantic_detection,
                 pii_types |-> [i \in 1..Len(a.value.presidio_detections) |->
                                  a.value.presidio_detections[i].entity_type]],
              risk_score |-> a.value.risk_score])

(***************************************************************************)
(* app/main.py: block_academic_scores                                      *)
(***************************************************************************)
Digits == {"0", "1", "2", "3", "4", "5", "6", "7", "8", "9"}

Whitespace == {" ", "\n", "\t", "\r"}

\* \w
WordChars == LowerSet \cup UpperSet \cup Digits \cup {"_"}

IsWord(c) == c \in WordChars

\* \b at offset i of t
Boundary(t, i) ==
  LET before == i >= 1 /\ IsWord(t[i])
      after == i < Len(t) /\ IsWord(t[i + 1])
  IN before # after

\* pattern items; re.IGNORECASE: a pattern in lower case is matched against the
\* text in lower case
Lit(c) == [kind |-> "set", chars |-> {c}, sub |-> <<>>]
OneOf(S) == [kind |-> "set", chars |-> S, sub |-> <<>>]
Star(S) == [kind |-> "star", chars |-> S, sub |-> <<>>]
Plus(S) == [kind |-> "plus", chars |-> S, sub |-> <<>>]
Opt(p) == [kind |-> "opt", chars |-> {}, sub |-> p]
WordB == [kind |-> "wb", chars |-> {}, sub |-> <<>>]

\* the number of characters of S in a row from offset i
RECURSIVE Run(_, _, _)
Run(t, i, S) ==
  IF i < Len(t) /\ t[i + 1] \in S THEN 1 + Run(t, i + 1, S) ELSE 0

\* the offsets where p[k..] can end when matched at offset i, in the order the
\* backtracking matcher tries them (greedy first)
RECURSIVE MatchEnds(_, _, _, _)
RECURSIVE RunEnds(_, _, _, _, _, _)
RECURSIVE GroupEnds(_, _, _, _)
MatchEnds(p, k, t, i) ==
  IF k > Len(p) THEN <<i>>
  ELSE LET it == p[k] IN
       CASE it.kind = "set" ->
              IF i < Len(t) /\ t[i + 1] \in it.chars
              THEN MatchEnds(p, k + 1, t, i + 1)
              ELSE <<>>
         [] it.kind = "star" -> RunEnds(p, k, t, i, Run(t, i, it.chars), 0)
         [] it.kind = "plus" -> RunEnds(p, k, t, i, Run(t, i, it.chars), 1)
         [] it.kind = "opt" ->
              GroupEnds(p, k, t, MatchEnds(it.sub, 1, t, i)) \o MatchEnds(p, k + 1, t, i)
         [] it.kind = "wb" ->
              IF Boundary(t, i) THEN MatchEnds(p, k + 1, t, i) ELSE <<>>

RunEnds(p, k, t, i, j, lo) ==
  IF j < lo THEN <<>>
  ELSE MatchEnds(p, k + 1, t, i + j) \o RunEnds(p, k, t, i, j - 1, lo)

GroupEnds(p, k, t, ends) ==
  IF ends = <<>> THEN <<>>
  ELSE MatchEnds(p, k + 1, t, Head(ends)) \o GroupEnds(p, k, t, Tail(ends))

\* re.sub from offset i on, tl being t in lower case; no pattern here matches
\* the empty string
RECURSIVE re_sub_from(_, _, _, _, _)
re_sub_from(p, repl, t, tl, i) ==
  IF i >= Len(t) THEN <<>>
  ELSE LET ends == MatchEnds(p, 1, tl, i) IN
       IF ends # <<>> /\ Head(ends) > i
       THEN repl \o re_sub_from(p, repl, t, tl, Head(ends))
       ELSE <<t[i + 1]>> \o re_sub_from(p, repl, t, tl, i + 1)

\* re.sub(p, repl, t, flags=re.IGNORECASE)
re_sub(p, repl, t) == re_sub_from(p, repl, t, lower(t), 0)

ScoreSeparator == Star({":"} \cup Whitespace)

Number == <<Plus(Digits), Opt(<<Lit("."), Plus(Digits)>>)>>

patterns ==
  << <<WordB, Lit("c"), Lit("g"), Lit("p"), Lit("a"), ScoreSeparator>> \o Number \o <<WordB>>,
     <<WordB, Lit("g"), Lit("p"), Lit("a"), ScoreSeparator>> \o Number \o <<WordB>>,
     <<WordB>> \o Number \o <<Star(Whitespace), Lit("/"), Star(Whitespace),
                              Lit("1"), Lit("0"), WordB>>,
     <<WordB>> \o Number \o <<Star(Whitespace), Lit("/"), Star(Whitespace),
                              Lit("1"), Lit("0"), Lit("0"), WordB>>,
     <<WordB, Lit("m"), Lit("a"), Lit("r"), Lit("k"), Lit("s"), ScoreSeparator,
       Plus(Digits), Opt(<<Lit("%")>>), WordB>>,
     <<WordB, Lit("g"), Lit("r"), Lit("a"), Lit("d"), Lit("e"), ScoreSeparator,
       OneOf({"a", "b", "c", "d", "e", "f"}), Opt(<<OneOf({"+", "-"})>>), WordB>> >>

REDACTED_SCORE ==
  <<"[", "R", "E", "D", "A", "C", "T", "E", "D", "_", "S", "C", "O", "R", "E", "]">>

RECURSIVE SubAll(_, _)
SubAll(t, k) ==
  IF k > Len(patterns) THEN t
  ELSE SubAll(re_sub(patterns[k], REDACTED_SCORE, t), k + 1)

\* block_academic_scores
block_academic_scores(t) == SubAll(t, 1)


(***************************************************************************)
(* Inputs of the detector: what the recognizer and the encoder may do      *)
(***************************************************************************)
MaxSpans == 1

MaxStart == 1

MaxSpanLen == 3

SpanTypes == {"EMAIL_ADDRESS", "LOCATION"}

Scores == {50, 85}

Spans(t, maxStart, maxLen) ==
  {r \in {[entity_type |-> ty, start |-> s, end |-> s + n, score |-> sc] :
            ty \in SpanTypes, sc \in Scores, s \in 0..maxStart, n \in 1..maxLen} :
     r.end <= Len(t)}

SeqsUpTo(S, n) == UNION {[1..k -> S] : k \in 0..n}

Analyzers(t, maxSpans, maxStart, maxLen) ==
  {[available |-> FALSE, raises |-> FALSE, results |-> <<>>],
   [available |-> TRUE, raises |-> TRUE, results |-> <<>>]} \cup
  {[available |-> TRUE, raises |-> FALSE, results |-> r] :
     r \in SeqsUpTo(Spans(t, maxStart, maxLen), maxSpans)}

TopicIndex(topic) == CHOOSE i \in 1..Len(sensitive_topics) : sensitive_topics[i] = topic

CgpaTopic == TopicIndex(<<"c", "g", "p", "a">>)
GpaTopic == TopicIndex(<<"g", "p", "a">>)
MarksTopic == TopicIndex(<<"m", "a", "r", "k", "s">>)
PercentageTopic == TopicIndex(<<"p", "e", "r", "c", "e", "n", "t", "a", "g", "e">>)
SalaryTopic == TopicIndex(<<"s", "a", "l", "a", "r", "y">>)

Encoders ==
  {[raises |-> TRUE, peaks |-> {}, sim |-> 0, base |-> 0]} \cup
  {[raises |-> FALSE, peaks |-> p, sim |-> s, base |-> 10] :
     p \in {{CgpaTopic}, {GpaTopic}, {MarksTopic}, {PercentageTopic}, {SalaryTopic},
            {CgpaTopic, GpaTopic}},
     s \in {60, 75, 90}}

Envs(t) ==
  [analyzer : Analyzers(t, MaxSpans, MaxStart, MaxSpanLen), encoder : Encoders]

Fixtures ==
  { <<>>,
    <<"x">>,
    <<"a", "@", "b">>,
    <<"C", "G", "P", "A">>,
    <<"G", "P", "A", " ", "9">>,
    <<"m", "a", "r", "k", "s">>,
    <<"9", "%">>,
    redaction_patterns.GPA,
    redaction_patterns.CGPA }

Unset == [raised |-> FALSE, value |-> <<"N", "o", "n", "e">>]

NoEnv == [analyzer |-> [available |-> FALSE, raises |-> FALSE, results |-> <<>>],
          encoder |-> [raises |-> TRUE, peaks |-> {}, sim |-> 0, base |-> 0]]

(***************************************************************************)
(* app/main.py: the files, /build_index and /query                         *)
(***************************************************************************)
MaxResumes == 2

MaxBuilds == 2

RiskCeiling == 800

\* str.strip()
RECURSIVE lstrip(_)
lstrip(s) == IF s # <<>> /\ Head(s) \in Whitespace THEN lstrip(Tail(s)) ELSE s

RECURSIVE rstrip(_)
rstrip(s) ==
  IF s # <<>> /\ s[Len(s)] \in Whitespace THEN rstrip(SubSeq(s, 1, Len(s) - 1)) ELSE s

strip(s) == rstrip(lstrip(s))

EmailText == <<"a", "@", "b">>

CgpaText == <<"C", "G", "P", "A">>

\* the offsets where sub occurs in t from offset i on, without overlap
RECURSIVE Occurrences(_, _, _)
Occurrences(sub, t, i) ==
  IF i + Len(sub) > Len(t) THEN <<>>
  ELSE IF SubSeq(t, i + 1, i + Len(sub)) = sub
       THEN <<i>> \o Occurrences(sub, t, i + Len(sub))
       ELSE Occurrences(sub, t, i + 1)

\* the recognizer and the encoder a process may run with: the recognizer finds
\* the e-mail addresses of a text or finds nothing, the encoder matches a text
\* that names the CGPA to the topic "cgpa" or matches no topic
Detectors == [email : BOOLEAN, cgpa : BOOLEAN]

\* what the recognizer and the encoder do on t: the same for the same text
DetectorOn(t) ==
  [analyzer |->
     [available |-> TRUE, raises |-> FALSE,
      results |->
        IF detector.email
        THEN LET at == Occurrences(EmailText, t, 0)
             IN [k \in 1..Len(at) |->
                   [entity_type |-> "EMAIL_ADDRESS", start |-> at[k],
                    end |-> at[k] + Len(EmailText), score |-> 85]]
        ELSE <<>>],
   encoder |->
     IF detector.cgpa /\ Contains(CgpaText, t)
     THEN [raises |-> FALSE, peaks |-> {CgpaTopic}, sim |-> 90, base |-> 10]
     ELSE [raises |-> FALSE, peaks |-> {SalaryTopic}, sim |-> 60, base |-> 10]]

\* the PDFs a user may put in RESUME_FOLDER: raw is the text of its pages joined,
\* readable is whether fitz.open succeeds
Pdfs ==
  {[readable |-> FALSE, raw |-> <<>>],
   [readable |-> TRUE, raw |-> <<>>],
   [readable |-> TRUE, raw |-> <<"a", "@", "b", "\n">>],
   [readable |-> TRUE, raw |-> <<"C", "G", "P", "A", " ", "9">>]}

Queries == {<<>>, <<" ">>, <<"x", " ">>}

\* response.text of the generative model
ModelTexts ==
  {<<>>,
   <<"a", "@", "b">>,
   <<"C", "G", "P", "A", " ", "9">>,
   <<"a", "@", "b", " ", "C", "G", "P", "A">>}

NoResponseText ==
  <<"[", "U+26A0", "U+FE0F", " ", "N", "o", " ", "r", "e", "s", "p", "o", "n", "s", "e", " ",
    "f", "r", "o", "m", " ", "m", "o", "d", "e", "l", "]">>

NoIndexFile == [state |-> "absent", gen |-> 0, ntotal |-> 0]

NoTextFile == [state |-> "absent", gen |-> 0, texts |-> <<>>]

NoResponse == [status |-> 0, kind |-> "none", answer |-> <<>>, cause |-> "none"]

Response(status, kind, answer, cause) ==
  [status |-> status, kind |-> kind, answer |-> answer, cause |-> cause]

NoAnalysis ==
  [safe |-> TRUE,
   metadata |-> [presidio_detections |-> <<>>,
                 semantic_detection |-> [detected |-> FALSE, similarity |-> 0],
                 pii_types |-> <<>>],
   risk_score |-> 0]

NoClient == [kind |-> "none", received |-> <<>>, content |-> <<>>]

FilesInit ==
  /\ detector \in Detectors
  /\ resumeFolder \in {[exists |-> b, pdfs |-> <<>>] : b \in BOOLEAN}
  /\ indexFile = NoIndexFile
  /\ textFile = NoTextFile

BuildIdle ==
  /\ bpc = "idle"
  /\ pdf_files = <<>>
  /\ btexts = <<>>
  /\ builds = 0
  /\ bprev = <<NoIndexFile, NoTextFile>>
  /\ bresp = NoResponse

QueryIdle ==
  /\ qpc = "idle"
  /\ query = <<>>
  /\ index = [gen |-> 0, ntotal |-> 0]
  /\ texts = [gen |-> 0, texts |-> <<>>]
  /\ matched_text = <<>>
  /\ redacted_text = <<>>
  /\ context_analysis = NoAnalysis
  /\ response_text = <<>>
  /\ final_analysis = NoAnalysis
  /\ qresp = NoResponse

\* a user puts a PDF in the folder
AddResume ==
  /\ resumeFolder.exists
  /\ Len(resumeFolder.pdfs) < MaxResumes
  /\ \E pdf \in Pdfs :
       resumeFolder' = [resumeFolder EXCEPT !.pdfs = Append(@, pdf)]
  /\ UNCHANGED <<hvars, detector, indexFile, textFile, bvars, qvars, client>>

\* build_index_route, build_faiss_index up to the listing
BuildRequest ==
  /\ bpc = "idle"
  /\ builds < MaxBuilds
  /\ IF ~resumeFolder.exists
     THEN /\ resumeFolder' = [resumeFolder EXCEPT !.exists = TRUE]
          /\ bresp' = Response(400, "error", <<>>, "no_pdfs")
          /\ UNCHANGED <<bpc, pdf_files, btexts, builds, bprev>>
     ELSE IF resumeFolder.pdfs = <<>>
     THEN /\ bresp' = Response(400, "error", <<>>, "no_pdfs")
          /\ UNCHANGED <<resumeFolder, bpc, pdf_files, btexts, builds, bprev>>
     ELSE /\ bpc' = "extract"
          /\ pdf_files' = resumeFolder.pdfs
          /\ btexts' = <<>>
          /\ builds' = builds + 1
          /\ bprev' = <<indexFile, textFile>>
          /\ bresp' = NoResponse
          /\ UNCHANGED resumeFolder
  /\ UNCHANGED <<hvars, detector, indexFile, textFile, qvars, client>>

\* an exception leaves build_faiss_index: the route answers 500
BuildAbort(cause) ==
  /\ bpc' = "idle"
  /\ bresp' = Response(500, "error", <<>>, cause)
  /\ UNCHANGED <<pdf_files, btexts, builds, bprev>>

\* extract_text_from_pdf of the next PDF of the listing
BuildExtract ==
  /\ bpc = "extract"
  /\ LET pdf == pdf_files[Len(btexts) + 1]
         raw == strip(pdf.raw)
     IN IF ~pdf.readable
        THEN BuildAbort("extract")
        ELSE /\ btexts' = Append(btexts, apply_guardrails(DetectorOn(raw), raw).value)
             /\ bpc' = IF Len(btexts) + 1 = Len(pdf_files) THEN "embed" ELSE "extract"
             /\ UNCHANGED <<pdf_files, builds, bprev, bresp>>
  /\ UNCHANGED <<hvars, detector, fvars, qvars, client>>

\* create_embeddings: the sanitized copies go to the encoder only, which
\* returns one vector per text or raises
BuildEmbed ==
  /\ bpc = "embed"
  /\ \E ok \in BOOLEAN :
       IF ok
       THEN bpc' = "write_index" /\ UNCHANGED <<pdf_files, btexts, builds, bprev, bresp>>
       ELSE BuildAbort("embed")
  /\ UNCHANGED <<hvars, detector, fvars, qvars, client>>

\* faiss.write_index opens FAISS_INDEX_FILE for writing
BuildOpenIndex ==
  /\ bpc = "write_index"
  /\ \E ok \in BOOLEAN :
       IF ok
       THEN /\ indexFile' = [state |-> "partial", gen |-> builds, ntotal |-> 0]
            /\ bpc' = "writing_index"
            /\ UNCHANGED <<pdf_files, btexts, builds, bprev, bresp>>
       ELSE BuildAbort("write_index") /\ UNCHANGED indexFile
  /\ UNCHANGED <<hvars, detector, resumeFolder, textFile, qvars, client>>

\* faiss.write_index writes the vectors
BuildWriteIndex ==
  /\ bpc = "writing_index"
  /\ \E ok \in BOOLEAN :
       IF ok
       THEN /\ indexFile' = [state |-> "complete", gen |-> builds, ntotal |-> Len(btexts)]
            /\ bpc' = "open_text"
            /\ UNCHANGED <<pdf_files, btexts, builds, bprev, bresp>>
       ELSE BuildAbort("write_index") /\ UNCHANGED indexFile
  /\ UNCHANGED <<hvars, detector, resumeFolder, textFile, qvars, client>>

\* open(TEXT_STORE_FILE, "wb")
BuildOpenText ==
  /\ bpc = "open_text"
  /\ \E ok \in BOOLEAN :
       IF ok
       THEN /\ textFile' = [state |-> "partial", gen |-> builds, texts |-> <<>>]
            /\ bpc' = "dump_text"
            /\ UNCHANGED <<pdf_files, btexts, builds, bprev, bresp>>
       ELSE BuildAbort("write_text") /\ UNCHANGED textFile
  /\ UNCHANGED <<hvars, detector, resumeFolder, indexFile, qvars, client>>

\* pickle.dump((texts, model), f), then return True
BuildDumpText ==
  /\ bpc = "dump_text"
  /\ \E ok \in BOOLEAN :
       IF ok
       THEN /\ textFile' = [state |-> "complete", gen |-> builds, texts |-> btexts]
            /\ bpc' = "idle"
            /\ bresp' = Response(200, "message", <<>>, "built")
            /\ UNCHANGED <<pdf_files, btexts, builds, bprev>>
       ELSE BuildAbort("write_text") /\ UNCHANGED textFile
  /\ UNCHANGED <<hvars, detector, resumeFolder, indexFile, qvars, client>>

\* query_resume returns
QueryReturn(r) ==
  /\ qpc' = "idle"
  /\ qresp' = r

\* query_resume up to the call of search_resumes
QueryRequest ==
  /\ qpc = "idle"
  /\ \E q \in Queries :
       /\ query' = strip(q)
       /\ index' = [gen |-> 0, ntotal |-> 0]
       /\ texts' = [gen |-> 0, texts |-> <<>>]
       /\ matched_text' = <<>>
       /\ redacted_text' = <<>>
       /\ context_analysis' = NoAnalysis
       /\ response_text' = <<>>
       /\ final_analysis' = NoAnalysis
       /\ IF strip(q) = <<>>
          THEN QueryReturn(Response(400, "error", <<>>, "no_query"))
          ELSE qpc' = "exists" /\ qresp' = NoResponse
  /\ UNCHANGED <<hvars, detector, fvars, bvars, client>>

\* search_resumes: the two os.path.exists
SearchExists ==
  /\ qpc = "exists"
  /\ IF indexFile.state # "absent" /\ textFile.state # "absent"
     THEN qpc' = "read_index" /\ UNCHANGED qresp
     ELSE QueryReturn(Response(404, "error", <<>>, "missing"))
  /\ UNCHANGED <<query, index, texts, matched_text, redacted_text,
                 context_analysis, response_text, final_analysis>>
  /\ UNCHANGED <<hvars, detector, fvars, bvars, client>>

\* search_resumes: faiss.read_index; a file not written to its end does not load
SearchReadIndex ==
  /\ qpc = "read_index"
  /\ IF indexFile.state = "complete"
     THEN /\ index' = [gen |-> indexFile.gen, ntotal |-> indexFile.ntotal]
          /\ qpc' = "read_texts"
          /\ UNCHANGED qresp
     ELSE /\ QueryReturn(Response(500, "error", <<>>, "corrupt_index"))
          /\ UNCHANGED index
  /\ UNCHANGED <<query, texts, matched_text, redacted_text,
                 context_analysis, response_text, final_analysis>>
  /\ UNCHANGED <<hvars, detector, fvars, bvars, client>>

\* search_resumes: pickle.load; a file not written to its end does not load
SearchReadTexts ==
  /\ qpc = "read_texts"
  /\ IF textFile.state = "complete"
     THEN /\ texts' = [gen |-> textFile.gen, texts |-> textFile.texts]
          /\ qpc' = "search"
          /\ UNCHANGED qresp
     ELSE /\ QueryReturn(Response(500, "error", <<>>, "corrupt_texts"))
          /\ UNCHANGED texts
  /\ UNCHANGED <<query, index, matched_text, redacted_text,
                 context_analysis, response_text, final_analysis>>
  /\ UNCHANGED <<hvars, detector, fvars, bvars, client>>

\* search_resumes: the sanitized query goes to the encoder only; index.search
\* gives the nearest of the index's vectors; then texts[indices[0][0]] and
\* query_resume's "if not matched_text"
SearchNearest ==
  /\ qpc = "search"
  /\ IF index.ntotal = 0
     THEN QueryReturn(Response(404, "error", <<>>, "no_neighbor")) /\ UNCHANGED matched_text
     ELSE \E i \in 0..(index.ntotal - 1) :
            IF i >= Len(texts.texts)
            THEN /\ QueryReturn(Response(500, "error", <<>>, "index_error"))
                 /\ UNCHANGED matched_text
            ELSE IF texts.texts[i + 1] = <<>>
            THEN /\ QueryReturn(Response(404, "error", <<>>, "empty_match"))
                 /\ UNCHANGED matched_text
            ELSE /\ matched_text' = texts.texts[i + 1]
                 /\ qpc' = "redact"
                 /\ UNCHANGED qresp
  /\ UNCHANGED <<query, index, texts, redacted_text,
                 context_analysis, response_text, final_analysis>>
  /\ UNCHANGED <<hvars, detector, fvars, bvars, client>>

\* redacted_text = block_academic_scores(apply_guardrails(matched_text))
QueryRedact ==
  /\ qpc = "redact"
  /\ redacted_text' =
       block_academic_scores(apply_guardrails(DetectorOn(matched_text), matched_text).value)
  /\ qpc' = "check"
  /\ UNCHANGED <<query, index, texts, matched_text, context_analysis,
                 response_text, final_analysis, qresp>>
  /\ UNCHANGED <<hvars, detector, fvars, bvars, client>>

\* analysis = analyze_content(redacted_text) and the block on it
QueryCheck ==
  /\ qpc = "check"
  /\ \E a \in {analyze_content(DetectorOn(redacted_text), redacted_text).value} :
       /\ context_analysis' = a
       /\ IF ~a.safe /\ a.risk_score > RiskCeiling
          THEN QueryReturn(Response(403, "blocked", <<>>, "risk"))
          ELSE qpc' = "generate" /\ UNCHANGED qresp
  /\ UNCHANGED <<query, index, texts, matched_text, redacted_text,
                 response_text, final_analysis>>
  /\ UNCHANGED <<hvars, detector, fvars, bvars, client>>

\* the prompt (the sanitized text and the sanitized query) goes to the model,
\* which answers with a text or raises
QueryGenerate ==
  /\ qpc = "generate"
  /\ \/ /\ QueryReturn(Response(500, "error", <<>>, "gemini"))
        /\ UNCHANGED response_text
     \/ \E r \in ModelTexts :
          /\ response_text' = IF r = <<>> THEN NoResponseText ELSE r
          /\ qpc' = "final"
          /\ UNCHANGED qresp
  /\ UNCHANGED <<query, index, texts, matched_text, redacted_text,
                 context_analysis, final_analysis>>
  /\ UNCHANGED <<hvars, detector, fvars, bvars, client>>

\* block_academic_scores(response_text), analyze_content and the block on it,
\* then the answer
QueryFinal ==
  /\ qpc = "final"
  /\ \E t \in {block_academic_scores(response_text)} :
     \E a \in {analyze_content(DetectorOn(t), t).value} :
       /\ response_text' = t
       /\ final_analysis' = a
       /\ IF ~a.safe /\ a.risk_score > RiskCeiling
          THEN QueryReturn(Response(403, "hidden", <<>>, "risk"))
          ELSE QueryReturn(Response(200, "answer", t, "answer"))
  /\ UNCHANGED <<query, index, texts, matched_text, redacted_text,
                 context_analysis>>
  /\ UNCHANGED <<hvars, detector, fvars, bvars, client>>

(***************************************************************************)
(* app/gemini_client.py: GeminiClient.generate_response                    *)
(***************************************************************************)
MockPrefix ==
    <<"[", "M", "O", "C", "K", " ", "G", "E", "M", "I", "N", "I", " ", "R",
      "E", "S", "P", "O", "N", "S", "E", "]", "\n", "\n", "P", "r", "o",
      "m", "p", "t", " ", "r", "e", "c", "e", "i", "v", "e", "d", ":", "\n">>

RequestErrorPrefix ==
    <<"[", "E", "R", "R", "O", "R", "]", " ", "G", "e", "m", "i", "n", "i",
      " ", "A", "P", "I", " ", "r", "e", "q", "u", "e", "s", "t", " ", "f",
      "a", "i", "l", "e", "d", ":", " ">>

UnexpectedErrorPrefix ==
    <<"[", "E", "R", "R", "O", "R", "]", " ", "U", "n", "e", "x", "p", "e",
      "c", "t", "e", "d", " ", "e", "r", "r", "o", "r", ":", " ">>

\* str(e) of an exception of the HTTP call
ExceptionText == <<"t", "i", "m", "e", "o", "u", "t">>

\* str(data) of a reply with neither "output" nor a first choice
EmptyReply == <<"{", "}">>

Prompts == {<<"a", "@", "b">>, <<"h", "i">>}

\* what requests.post gives: an exception, or the JSON reply
HttpOutcomes ==
  {[kind |-> k, text |-> <<>>, message |-> <<>>] : k \in {"request_error", "error", "other"}}
  \cup {[kind |-> "output", text |-> t, message |-> <<>>] : t \in ModelTexts}
  \cup {[kind |-> "choices", text |-> t, message |-> m] :
          t \in {<<>>, <<"a", "@", "b">>}, m \in {<<>>, <<"h", "i">>}}

\* the content generate_response takes from the reply
ReplyContent(out) ==
  CASE out.kind = "output" -> out.text
    [] out.kind = "choices" -> IF out.text # <<>> THEN out.text ELSE out.message
    [] OTHER -> EmptyReply

\* generate_response(prompt)
ClientGenerate ==
  /\ \E prompt \in Prompts, api_key \in BOOLEAN, out \in HttpOutcomes :
       LET safe_prompt == apply_guardrails(DetectorOn(prompt), prompt).value
           content == ReplyContent(out)
       IN client' =
            IF ~api_key
            THEN [kind |-> "mock", received |-> <<>>,
                  content |-> MockPrefix \o Take(safe_prompt, 1000)]
            ELSE IF out.kind = "request_error"
            THEN [kind |-> "request_error", received |-> <<>>,
                  content |-> RequestErrorPrefix \o ExceptionText]
            ELSE IF out.kind = "error"
            THEN [kind |-> "unexpected_error", received |-> <<>>,
                  content |-> UnexpectedErrorPrefix \o ExceptionText]
            ELSE [kind |-> "model", received |-> content,
                  content |-> apply_guardrails(DetectorOn(content), content).value]
  /\ UNCHANGED <<hvars, detector, fvars, bvars, qvars>>

ServiceIdle == FilesInit /\ BuildIdle /\ QueryIdle /\ client = NoClient

\* the service before its first request, for the runs of the detector alone
ServiceOff ==
  /\ detector = [email |-> FALSE, cgpa |-> FALSE]
  /\ resumeFolder = [exists |-> FALSE, pdfs |-> <<>>]
  /\ indexFile = NoIndexFile
  /\ textFile = NoTextFile
  /\ BuildIdle
  /\ QueryIdle
  /\ client = NoClient

HarnessIdle ==
  /\ text = <<>>
  /\ env = NoEnv
  /\ analysis = Unset
  /\ sanitized = Unset
  /\ env2 = NoEnv
  /\ resanitized = Unset
  /\ hpc = "off"

Init == HarnessIdle /\ ServiceIdle

Next ==
  \/ AddResume
  \/ BuildRequest
  \/ BuildExtract
  \/ BuildEmbed
  \/ BuildOpenIndex
  \/ BuildWriteIndex
  \/ BuildOpenText
  \/ BuildDumpText
  \/ QueryRequest
  \/ SearchExists
  \/ SearchReadIndex
  \/ SearchReadTexts
  \/ SearchNearest
  \/ QueryRedact
  \/ QueryCheck
  \/ QueryGenerate
  \/ QueryFinal

Spec == Init /\ [][Next]_vars

SpecClient == Init /\ [][ClientGenerate]_vars

(***************************************************************************)
(* apply_guardrails on one input, then on its own output                   *)
(***************************************************************************)
HInit ==
  /\ text \in Fixtures
  /\ env \in Envs(text)
  /\ analysis = Unset
  /\ sanitized = Unset
  /\ env2 = NoEnv
  /\ resanitized = Unset
  /\ hpc = "input"
  /\ ServiceOff

\* sanitized = apply_guardrails(text)
Sanitize ==
  /\ hpc = "input"
  /\ analysis' = apply_guardrails_report(env, text)
  /\ sanitized' = apply_guardrails(env, text)
  /\ hpc' = "sanitized"
  /\ UNCHANGED <<text, env, env2, resanitized>>
  /\ UNCHANGED <<detector, fvars, bvars, qvars, client>>

\* what the detector may do on the output of a first pass: the recognizer finds
\* any spans, the encoder scores the output as it scored the input or matches
\* no topic
ReEnvs(t) ==
  [analyzer : Analyzers(t, MaxSpans, MaxStart, MaxSpanLen),
   encoder : {env.encoder,
              [raises |-> FALSE, peaks |-> {SalaryTopic}, sim |-> 60, base |-> 10]}]

\* resanitized = apply_guardrails(sanitized); the same text is detected the same way
Resanitize ==
  /\ hpc = "sanitized"
  /\ ~sanitized.raised
  /\ \E e \in ReEnvs(sanitized.value) :
       /\ sanitized.value = text => e = env
       /\ env2' = e
       /\ resanitized' = apply_guardrails(e, sanitized.value)
  /\ hpc' = "resanitized"
  /\ UNCHANGED <<text, env, analysis, sanitized>>
  /\ UNCHANGED <<detector, fvars, bvars, qvars, client>>

SpecSanitize == HInit /\ [][Sanitize]_vars

SpecIdempotent == HInit /\ [][Sanitize \/ Resanitize]_vars

(***************************************************************************)
(* redact_pii on spans that may overlap, nest or touch                     *)
(***************************************************************************)
MaxTextLen == 17

MaxRedactSpans == 2

RedactTypes == {"EMAIL_ADDRESS", "URL"}

\* every span 0 <= start < end <= len(t)
AllSpans(t) ==
  {d \in {[entity_type |-> ty, start |-> s, end |-> e, score |-> 85] :
            ty \in RedactTypes, s \in 0..(Len(t) - 1), e \in 1..Len(t)} :
     d.start < d.end}

RInit ==
  /\ text \in {SubSeq(LowerChars, 1, n) : n \in 0..MaxTextLen}
  /\ env \in [analyzer : {[available |-> TRUE, raises |-> FALSE, results |-> r] :
                            r \in SeqsUpTo(AllSpans(text), MaxRedactSpans)},
              encoder : {[raises |-> FALSE, peaks |-> {SalaryTopic}, sim |-> 60, base |-> 10]}]
  /\ analysis = Unset
  /\ sanitized = Unset
  /\ env2 = NoEnv
  /\ resanitized = Unset
  /\ hpc = "input"
  /\ ServiceOff

SpecRedact == RInit /\ [][Sanitize]_vars

(***************************************************************************)
(* The risk score of a report that gains high-risk spans                   *)
(***************************************************************************)
MaxRiskSpans == 3

RiskTexts == {<<"x">>, <<"x", "y">>}

RiskSpanTypes == {"EMAIL_ADDRESS", "US_SSN"}

RkInit ==
  /\ text \in RiskTexts
  /\ env \in Envs(text)
  /\ analysis = Unset
  /\ sanitized = Unset
  /\ env2 = NoEnv
  /\ resanitized = Unset
  /\ hpc = "input"
  /\ ServiceOff

\* the same text analysed again when the recognizer returns one more span of a
\* high-risk type
AddHighRiskSpan ==
  /\ hpc = "sanitized"
  /\ env.analyzer.available /\ ~env.analyzer.raises
  /\ Len(env.analyzer.results) < MaxRiskSpans
  /\ \E ty \in RiskSpanTypes :
     \E e \in {[env EXCEPT !.analyzer.results =
                   Append(@, [entity_type |-> ty, start |-> 0, end |-> 1,
                              score |-> 85])]} :
       /\ env' = e
       /\ analysis' = apply_guardrails_report(e, text)
       /\ sanitized' = apply_guardrails(e, text)
  /\ UNCHANGED <<text, env2, resanitized, hpc>>
  /\ UNCHANGED <<detector, fvars, bvars, qvars, client>>

SpecRisk == RkInit /\ [][Sanitize \/ AddHighRiskSpan]_vars

(***************************************************************************)
(* The claims                                                              *)
(***************************************************************************)
\* C1: whenever the risk score analyze_content computes for the model's
\* response exceeds 0.8, /query answers with the blocked payload (403) and the
\* response text does not reach the caller; likewise for the retrieved context
\* checked before the model is called.
C1_HighRiskBlocked ==
  /\ qresp.status = 200 => final_analysis.risk_score <= RiskCeiling
  /\ qpc \in {"generate", "final"} => context_analysis.risk_score <= RiskCeiling

\* C2: a query that runs while the index is rebuilt reads a vector index and a
\* text store of the same build, never the index of one build with the text
\* store of another.
C2_SameBuild == texts.gen # 0 => index.gen = texts.gen

\* C3: apply_guardrails is idempotent, also on inputs that hold redaction
\* tokens: where the recognizer finds no span in the sanitized text and the
\* encoder matches it as it matched the input, sanitizing the sanitized text
\* gives it back unchanged.
C3_Idempotent ==
  (hpc = "resanitized" /\ env2.analyzer.results = <<>> /\ env2.encoder = env.encoder)
    => resanitized = sanitized

\* the i-th character of text lies in no span the recognizer reported
OutsideSpans(i) ==
  \A k \in 1..Len(env.analyzer.results) :
    ~(env.analyzer.results[k].start < i /\ i <= env.analyzer.results[k].end)

\* the characters of text outside every span, in their order
OutsideText ==
  LET idx == {i \in 1..Len(text) : OutsideSpans(i)}
  IN [j \in 1..Cardinality(idx) |->
        text[CHOOSE i \in idx : Cardinality({m \in idx : m < i}) = j - 1]]

RECURSIVE IsSubsequence(_, _)
IsSubsequence(a, b) ==
  IF a = <<>> THEN TRUE
  ELSE IF b = <<>> THEN FALSE
  ELSE IF Head(a) = Head(b) THEN IsSubsequence(Tail(a), Tail(b))
  ELSE IsSubsequence(a, Tail(b))

\* no two spans of the recognizer have the same entity type
DistinctTypes ==
  \A j, k \in 1..Len(env.analyzer.results) :
    j # k => env.analyzer.results[j].entity_type # env.analyzer.results[k].entity_type

\* C4: for spans with 0 <= start < end <= len(text), overlapping, nested or
\* adjacent (here of different entity types), the descending-start replacement
\* does not raise and every character of the input outside all spans is in the
\* output, unchanged and in its original order.
C4_OutsideSpansKept ==
  (hpc = "sanitized" /\ DistinctTypes)
    => /\ ~sanitized.raised
       /\ IsSubsequence(OutsideText, sanitized.value)

\* env with the recognizer's results below presidio_confidence dropped
ConfidentEnv ==
  [env EXCEPT !.analyzer.results =
                SelectSeq(@, LAMBDA r : r.score >= presidio_confidence)]

\* C5: the spans whose confidence is below presidio_confidence (0.7) are
\* discarded before scoring and redaction: the report and the sanitized text
\* are those of the confident spans alone.
C5_LowConfidenceDiscarded ==
  hpc = "sanitized"
    => /\ sanitized = apply_guardrails(ConfidentEnv, text)
       /\ analysis = apply_guardrails_report(ConfidentEnv, text)

\* C6: the text received from the generative model is passed through
\* apply_guardrails before it is returned: the answer of /query, and the content
\* of generate_response, is what apply_guardrails gives for the text held.
C6_ResponseSanitized ==
  /\ qresp.status = 200
       => qresp.answer =
            apply_guardrails(DetectorOn(response_text), response_text).value
  /\ client.kind = "model"
       => client.content =
            apply_guardrails(DetectorOn(client.received), client.received).value

\* C7: a build that fails part-way publishes nothing: the index file and the
\* text store are the pair they were when the build started.
C7_NoPartialStore ==
  (bpc = "idle" /\ bresp.status = 500) => <<indexFile, textFile>> = bprev

\* the number of PDFs of the build's listing that can be read
ReadablePdfs == Cardinality({i \in 1..Len(pdf_files) : pdf_files[i].readable})

\* C8: a document whose extraction fails is skipped and the other documents
\* are still indexed: a build that ended, with a readable PDF in its listing
\* and no failure of the encoder or of the disk, answered 200 and wrote the
\* texts of all its readable PDFs.
C8_FailingDocumentSkipped ==
  (/\ bpc = "idle"
   /\ bresp.status \in {200, 500}
   /\ bresp.cause \notin {"embed", "write_index", "write_text"}
   /\ ReadablePdfs >= 1)
    => /\ bresp.status = 200
       /\ textFile = [state |-> "complete", gen |-> builds, texts |-> btexts]
       /\ Len(btexts) = ReadablePdfs

\* C9: a query against a store that is missing, empty or corrupt answers
\* "no match" (404) and raises nothing (no 500).
C9_NoMatchNotException ==
  qresp.cause \in {"missing", "no_neighbor", "corrupt_index", "corrupt_texts"}
    => qresp.status = 404

\* C10: apply_guardrails fails open and never raises: a recognizer that is
\* unavailable or raises gives no span, an encoder that raises gives
\* {detected: False, similarity: 0.0}, and apply_guardrails returns a string in
\* every combination, the input itself when both fail.
C10_FailOpen ==
  hpc = "sanitized"
    => /\ ~sanitized.raised
       /\ ~analysis.raised
       /\ (~env.analyzer.available \/ env.analyzer.raises)
            => analysis.value.presidio_detections = <<>>
       /\ env.encoder.raises
            => analysis.value.semantic_detection = [detected |-> FALSE, similarity |-> 0]
       /\ ((~env.analyzer.available \/ env.analyzer.raises) /\ env.encoder.raises)
            => sanitized.value = text

\* apply_guardrails returned although the recognizer raised and the encoder raised
C10_BothFail ==
  /\ hpc = "sanitized"
  /\ env.analyzer.available
  /\ env.analyzer.raises
  /\ env.encoder.raises
  /\ text # <<>>

\* the spans and the semantic match of the report
ReportSpans == analysis.value.presidio_detections

ReportSemantic == analysis.value.semantic_detection

HighRiskCount ==
  Cardinality({i \in 1..Len(ReportSpans) :
                 ReportSpans[i].entity_type \in high_risk_entities})

\* C11: risk_score = min(1.0, 0.3 * spans + 0.5 * similarity if the semantic
\* match is detected + 0.4 * spans of a high-risk type), in thousandths, for
\* every report.
C11_RiskFormula ==
  hpc = "sanitized"
    => LET raw == RiskPerDetection * Len(ReportSpans)
                  + (IF ReportSemantic.detected
                     THEN RiskSemanticWeight * ReportSemantic.similarity ELSE 0)
                  + RiskHighRisk * HighRiskCount
       IN analysis.value.risk_score = IF raw > RiskMax THEN RiskMax ELSE raw

\* C11 witness: a report where all three terms count: a span of a high-risk
\* type, a span of another type and a detected semantic match.
C11_AllTerms ==
  /\ hpc = "sanitized"
  /\ ~analysis.raised
  /\ ReportSemantic.detected
  /\ HighRiskCount >= 1
  /\ HighRiskCount < Len(ReportSpans)

\* C12: risk_score is always within [0, 1], and the report of the same text
\* with one more high-risk span never has a lower risk_score.
C12_ClampedMonotone ==
  /\ [](hpc = "sanitized" => analysis.value.risk_score \in 0..RiskMax)
  /\ [][hpc = "sanitized" => analysis'.value.risk_score >= analysis.value.risk_score]_vars

\* C12 witness: high-risk spans were added to the report and the score is at
\* its ceiling.
C12_AddedAtCeiling ==
  /\ hpc = "sanitized"
  /\ ~analysis.raised
  /\ Len(ReportSpans) > MaxSpans
  /\ analysis.value.risk_score = RiskMax

\* C13: when the report has no entity spans and the semantic match is not
\* detected, apply_guardrails returns its input unchanged.
C13_NothingDetectedUnchanged ==
  (hpc = "sanitized" /\ ~analysis.raised /\ ReportSpans = <<>>
     /\ ~ReportSemantic.detected)
    => sanitized = Ok(text)

\* C13 witness: a text naming a sensitive keyword went through sanitize with
\* a working recognizer that found nothing and an encoder below the threshold.
C13_KeywordUndetected ==
  /\ hpc = "sanitized"
  /\ text = <<"C", "G", "P", "A">>
  /\ env.analyzer.available /\ ~env.analyzer.raises
  /\ ~env.encoder.raises
  /\ ~analysis.raised
  /\ ReportSpans = <<>>
  /\ ~ReportSemantic.detected

\* C14: redact_pii leaves the report unchanged: the content and the order of
\* its span sequence after the call are those analyze_text computed.
C14_ReportUnchanged ==
  hpc = "sanitized" => analysis = analyze_text(env, text)

====
